---- MODULE Spec2Model ----
(***************************************************************************)
(* Model of the patchright-skill browser command relay of yoke233/goclaw:  *)
(*   scripts/server.py   - BrowserServer: one asyncio task per accepted    *)
(*                         connection (handle_client), a main task         *)
(*                         (run_server), one shared Session                *)
(*                         (self.pw, self.browser, self.page);             *)
(*   scripts/executor.py - the standalone dispatcher call_tool over the    *)
(*                         module globals _browser, _page.                 *)
(* A coroutine runs without interruption from one suspending await to the  *)
(* next, so every action below is one such segment of the code.  The       *)
(* outcome of an awaited browser operation (it returns, or it raises) is   *)
(* an input chosen when the await completes.                               *)
(***************************************************************************)
EXTENDS Naturals, FiniteSets, Sequences, TLC

\* ------------------------------------------------------------------ bounds
\* Connections that can be open at the same time (asyncio.start_server puts
\* no limit on them).
NumConns == 2
\* Playwright driver / browser / page objects that can exist at the same time.
MaxId == 2

Conns == 1..NumConns
IDs == 1..MaxId
\* Python's None for a handle.
None == 0

VARIABLES
  prog,      \* which script runs: "server" (server.py start) or "executor"
  pw,        \* self.pw: the driver handle (server.py:36)
  browser,   \* self.browser (server.py:37) / _browser (executor.py:27)
  page,      \* self.page (server.py:38) / _page (executor.py:28)
  drivers,   \* driver processes started and not stopped
  browsers,  \* browser processes launched and not closed
  pages,     \* pages created and not closed
  running,   \* self.running (server.py:40)
  listening, \* self.server is bound and accepting (server.py:159, 166)
  pidFile,   \* PID_FILE exists (server.py:160, 169)
  mainPc,    \* position of the run_server task
  mainRef,   \* the object the run_server task awaits an operation on
  conn,      \* per connection: position of its handle_client task and its locals
  last,      \* the request answered by the step that led here and its response, if any
  record,    \* server.py start: the pid that PID_FILE holds, None when there is no file
  port,      \* server.py start: the pid of the process bound to PORT, None when free
  alive,     \* server.py start: the pids os.kill(pid, 0) finds alive
  starter,   \* server.py start: position and locals of each `server.py start` process
  old,       \* server.py start: position of the server that ran before the start commands
  client,    \* send_command: position and locals of one call, and the peer's side of it
  crawl,     \* batch_crawler.py: position and locals of one run, and the file it writes
  search,    \* google_search.py: position and locals of one GoogleSearcher.search call
  gsearch,   \* crawl4ai-skill google_search.py: position and locals of one run of main
  pipeline   \* extraction_pipeline.py: one run of a mode's function, and the file it writes

vars == <<prog, pw, browser, page, drivers, browsers, pages, running,
          listening, pidFile, mainPc, mainRef, conn, last,
          record, port, alive, starter, old, client, crawl, search,
          gsearch, pipeline>>

session == <<pw, browser, page, drivers, browsers, pages>>
control == <<running, listening, pidFile, mainPc, mainRef>>
\* The state of the relay (server.py's BrowserServer, executor.py's globals).
relay == <<session, control, conn, last>>
\* The state of concurrent `server.py start` processes.
startup == <<record, port, alive, starter, old>>
\* The state of the scripts other than the relay.
scripts == <<startup, client, crawl, search, gsearch, pipeline>>

\* ---------------------------------------------------------------- requests
\* `tool` of a request that has no "tool" key: dict.get gives None.
NoTool == "<none>"

\* server.py:114-125, the handlers of handle_call.
ServerTools == {"launch", "close", "navigate", "screenshot", "click", "type",
                "get_text", "get_url", "get_title", "evaluate"}

\* executor.py:177-233, TOOLS.
ExecTools == {"launch", "close", "navigate", "screenshot", "screenshot_base64",
              "click", "type", "get_text", "wait_for", "get_url", "get_title"}

\* The argument each handler indexes with args[...] (server.py:117-124), in
\* the order the lambda evaluates them; the executor's required parameters
\* are the same (executor.py:64, 112, 123, 134, 145).
Required(tool) ==
  CASE tool = "navigate" -> <<"url">>
    [] tool = "click" -> <<"selector">>
    [] tool = "type" -> <<"selector", "text">>
    [] tool = "get_text" -> <<"selector">>
    [] tool = "evaluate" -> <<"script">>
    [] tool = "wait_for" -> <<"selector">>
    [] OTHER -> <<>>

Range(s) == {s[i] : i \in 1..Len(s)}

\* The tool names requests carry: every registered name of either script,
\* a name neither registers, and no name at all.
ToolValues == ServerTools \cup ExecTools \cup {"bogus", NoTool}

\* The ones sent to the server: its own tools, an unregistered name, no name.
ServerToolValues == ServerTools \cup {"bogus", NoTool}

\* The args mappings requests carry, as the set of keys present: every subset
\* of the tool's required keys (all present, some missing, none).  A request
\* names its tool by a string or not at all, and its args are a mapping whose
\* keys are among the tool's declared arguments; the optional ones (headless,
\* path, full_page, timeout) decide no branch and are left out.
ArgSets(tool) == SUBSET Range(Required(tool))

NoReq == [json |-> "none", cmd |-> "", tool |-> NoTool, args |-> {}]

\* What json.loads gives for the bytes read (server.py:137-138): a JSON object
\* with or without "cmd", a JSON value that is no object, or a failure (empty
\* or malformed data).
CallRequests ==
  {[json |-> "object", cmd |-> c, tool |-> t, args |-> a] :
      c \in {"", "other"}, t \in ToolValues, a \in SUBSET {"url", "selector", "text", "script"}}

WellFormed(rq) == rq.args \in ArgSets(rq.tool)

Requests ==
  {rq \in CallRequests : /\ WellFormed(rq)
                         /\ rq.tool \in ServerToolValues
                         /\ rq.cmd = "other" => rq.tool \in {NoTool, "get_url"}}
  \cup {[json |-> "object", cmd |-> "stop", tool |-> NoTool, args |-> {}],
        [json |-> "object", cmd |-> "status", tool |-> NoTool, args |-> {}],
        [json |-> "notobject", cmd |-> "", tool |-> NoTool, args |-> {}],
        [json |-> "invalid", cmd |-> "", tool |-> NoTool, args |-> {}]}

\* --------------------------------------------------------------- responses
Tags == {"success", "error", "already_running", "not_running"}

Resp(st, m) == [status |-> st, msg |-> m, page |-> None, hasB |-> FALSE, hasP |-> FALSE]

NoResp == Resp("", "")

\* str(None) is "None" (server.py:128, executor.py:251).
PyStr(tool) == IF tool = NoTool THEN "None" ELSE tool

UnknownTool(tool) == Resp("error", "Unknown tool: " \o PyStr(tool))

\* str(KeyError(k)) (server.py:133).
KeyErrorText(k) == "'" \o k \o "'"

\* The first required key the lambda fails to find.
FirstMissing(tool, args) ==
  LET req == Required(tool)
      i == CHOOSE j \in 1..Len(req) : req[j] \notin args /\ \A k \in 1..(j - 1) : req[k] \in args
  IN req[i]

MissingArgs(tool, args) == \E k \in Range(Required(tool)) : k \notin args

\* str(AttributeError) of self.page.goto with self.page None (server.py:67).
NoneHasNo(attr) == "'NoneType' object has no attribute '" \o attr \o "'"

\* The text of a failure raised by the browser driver for operation op.
OpFailed(op) == op \o " failed"

\* NoPageOpen with a status outside the four tags.
NoPageOpen_Tag == Resp("no_page", "No page open")

NoPageOpen == Resp("error", "No page open")

\* `last` in a state that no call has just been answered in.
NoLast == [req |-> NoReq, resp |-> NoResp]


\* ------------------------------------------------------------- connections
\* The handle_client task of a connection.  pc is the await it is suspended
\* at: "read" (reader.read, server.py:137), "pw_start" (server.py:45),
\* "launch" (server.py:46), "new_page" (server.py:51), "goto" (server.py:67),
\* "title" (server.py:68, 102), "pageop" (server.py:74, 80, 86, 92, 107),
\* "br_close" (server.py:56), "pw_stop" (server.py:60), "drain"
\* (server.py:149), "drain2" (server.py:152); "idle" before accept, "closed"
\* after writer.close().  ref is the object the awaited operation acts on,
\* lazy whether navigate found no page, writes the calls of writer.write.
IdleConn == [pc |-> "idle", req |-> NoReq, ref |-> None, lazy |-> FALSE, writes |-> 0]

InFlight == {"pw_start", "launch", "new_page", "goto", "title", "pageop", "br_close", "pw_stop"}

InUse == {pw, browser, page, mainRef} \cup drivers \cup browsers \cup pages
           \cup {conn[c].ref : c \in Conns}

FreeIds == IDs \ InUse

NewId == CHOOSE i \in FreeIds : \A j \in FreeIds : i <= j

\* handle_call has returned, or the try block has raised, and handle_client
\* goes on without suspending (server.py:146-148, 150-151): the connection is
\* at "respond" with a response to serialize, or at "raise" with an exception
\* in hand, and no other task runs until WriteResponse has taken it on.
Answer(c, rq, rs, ser) ==
  /\ conn' = [conn EXCEPT ![c] = [IdleConn EXCEPT !.pc = IF ser THEN "respond" ELSE "raise"]]
  /\ last' = [req |-> rq, resp |-> rs]

Suspend(c, rq, pc, ref, lazy) ==
  /\ conn' = [conn EXCEPT ![c] = [pc |-> pc, req |-> rq, ref |-> ref, lazy |-> lazy, writes |-> 0]]
  /\ last' = NoLast

\* No task is between computing a response and its first await.
Quiet == \A c \in Conns : conn[c].pc \notin {"respond", "raise"}

\* The event loop runs handler tasks while the run_server task is suspended.
LoopAlive == mainPc \in {"loop", "wait_closed", "br_close", "pw_stop"} /\ Quiet

Reading(c) == prog = "server" /\ LoopAlive /\ conn[c].pc = "read"

At(c, pc) == prog = "server" /\ LoopAlive /\ conn[c].pc = pc

\* A request that handle_client passes to handle_call (server.py:140-146).
IsCall(rq) == rq.json = "object" /\ rq.cmd \notin {"stop", "status"}

\* asyncio.start_server's accept callback: a new task per connection
\* (server.py:159).
Accept(c) ==
  /\ prog = "server" /\ LoopAlive /\ listening
  /\ conn[c].pc \in {"idle", "closed"}
  /\ conn' = [conn EXCEPT ![c] = [IdleConn EXCEPT !.pc = "read"]]
  /\ UNCHANGED <<prog, scripts, session, control>> /\ last' = NoLast

\* HandleBad with the exception leaving the server loop: the request that
\* cannot be parsed also ends the poll loop.
HandleBad_Exit(c) ==
  /\ Reading(c)
  /\ \E rq \in Requests :
       /\ rq.json \in {"invalid", "notobject"}
       /\ Answer(c, rq, Resp("error", "Expecting value: line 1 column 1 (char 0)"), FALSE)
  /\ running' = FALSE
  /\ UNCHANGED <<prog, scripts, session, listening, pidFile, mainPc, mainRef>>

\* server.py:138, 150-152: json.loads raises, or request.get does.
HandleBad(c) ==
  /\ Reading(c)
  /\ \E rq \in Requests :
       /\ rq.json \in {"invalid", "notobject"}
       /\ Answer(c, rq,
                 Resp("error", IF rq.json = "invalid"
                                 THEN "Expecting value: line 1 column 1 (char 0)"
                                 ELSE "'list' object has no attribute 'get'"), FALSE)
  /\ UNCHANGED <<prog, scripts, session, control>>

\* server.py:140-142.
HandleStop(c) ==
  /\ Reading(c)
  /\ \E rq \in Requests :
       /\ rq.json = "object" /\ rq.cmd = "stop"
       /\ Answer(c, rq, Resp("success", "Server stopping"), TRUE)
  /\ running' = FALSE
  /\ UNCHANGED <<prog, scripts, session, listening, pidFile, mainPc, mainRef>>

\* HandleStatus with the browser flag taken from the page handle.
HandleStatus_PageOnly(c) ==
  /\ Reading(c)
  /\ \E rq \in Requests :
       /\ rq.json = "object" /\ rq.cmd = "status"
       /\ Answer(c, rq, [Resp("success", "") EXCEPT !.hasB = (page # None),
                                                    !.hasP = (page # None)], TRUE)
  /\ UNCHANGED <<prog, scripts, session, control>>

\* server.py:143-144.
HandleStatus(c) ==
  /\ Reading(c)
  /\ \E rq \in Requests :
       /\ rq.json = "object" /\ rq.cmd = "status"
       /\ Answer(c, rq, [Resp("success", "") EXCEPT !.hasB = (browser # None),
                                                    !.hasP = (page # None)], TRUE)
  /\ UNCHANGED <<prog, scripts, session, control>>

\* CallUnknown without the membership test: handlers[tool] raises KeyError,
\* which the except clause of handle_call turns into the response.
CallUnknown_KeyError(c) ==
  /\ Reading(c)
  /\ \E rq \in Requests :
       /\ IsCall(rq) /\ rq.tool \notin ServerTools
       /\ Answer(c, rq, Resp("error", KeyErrorText(PyStr(rq.tool))), TRUE)
  /\ UNCHANGED <<prog, scripts, session, control>>

\* server.py:127-128.
CallUnknown(c) ==
  /\ Reading(c)
  /\ \E rq \in Requests :
       /\ IsCall(rq) /\ rq.tool \notin ServerTools
       /\ Answer(c, rq, UnknownTool(rq.tool), TRUE)
  /\ UNCHANGED <<prog, scripts, session, control>>

\* CallMissingArg with args.get(key) in place of args[key]: the handler is
\* entered with None for the missing argument.
CallMissingArg_Get(c) ==
  /\ Reading(c)
  /\ \E rq \in Requests :
       /\ IsCall(rq) /\ rq.tool \in ServerTools /\ MissingArgs(rq.tool, rq.args)
       /\ IF page = None
            THEN Answer(c, rq, Resp("error", "No page open"), TRUE)
            ELSE Suspend(c, rq, "pageop", page, FALSE)
  /\ UNCHANGED <<prog, scripts, session, control>>

\* server.py:117-124, 130-133: args[key] raises KeyError inside the lambda,
\* before the handler is entered.
CallMissingArg(c) ==
  /\ Reading(c)
  /\ \E rq \in Requests :
       /\ IsCall(rq) /\ rq.tool \in ServerTools /\ MissingArgs(rq.tool, rq.args)
       /\ Answer(c, rq, Resp("error", KeyErrorText(FirstMissing(rq.tool, rq.args))), TRUE)
  /\ UNCHANGED <<prog, scripts, session, control>>

GoodCall(rq, tools) ==
  IsCall(rq) /\ rq.tool \in tools /\ ~MissingArgs(rq.tool, rq.args)

\* CallLaunch without the guard on self.browser.
CallLaunch_NoGuard(c) ==
  /\ Reading(c)
  /\ \E rq \in Requests :
       /\ GoodCall(rq, {"launch"})
       /\ FreeIds # {} /\ Suspend(c, rq, "pw_start", NewId, FALSE)
  /\ UNCHANGED <<prog, scripts, session, control>>

\* start_browser up to its first await (server.py:43-45).
CallLaunch(c) ==
  /\ Reading(c)
  /\ \E rq \in Requests :
       /\ GoodCall(rq, {"launch"})
       /\ IF browser # None
            THEN Answer(c, rq, Resp("already_running", ""), TRUE)
            ELSE FreeIds # {} /\ Suspend(c, rq, "pw_start", NewId, FALSE)
  /\ UNCHANGED <<prog, scripts, session, control>>

\* navigate up to its first await (server.py:65-67, 43-45).
CallNavigate(c) ==
  /\ Reading(c)
  /\ \E rq \in Requests :
       /\ GoodCall(rq, {"navigate"})
       /\ IF page # None
            THEN Suspend(c, rq, "goto", page, FALSE)
            ELSE IF browser # None
                   THEN Answer(c, rq, Resp("error", NoneHasNo("goto")), TRUE)
                   ELSE FreeIds # {} /\ Suspend(c, rq, "pw_start", NewId, TRUE)
  /\ UNCHANGED <<prog, scripts, session, control>>

\* self.pw = await async_playwright().start(), then the call of launch
\* (server.py:45-46).
PwStarted(c) ==
  /\ At(c, "pw_start")
  /\ \E ok \in BOOLEAN :
       IF ok
         THEN /\ pw' = conn[c].ref
              /\ drivers' = drivers \cup {conn[c].ref}
              /\ conn' = [conn EXCEPT ![c].pc = "launch"]
              /\ last' = NoLast
         ELSE /\ Answer(c, conn[c].req, Resp("error", OpFailed("start")), TRUE)
              /\ UNCHANGED <<pw, drivers>>
  /\ UNCHANGED <<prog, scripts, browser, page, browsers, pages, control>>

\* self.browser = await self.pw.chromium.launch(...), then the call of
\* new_page (server.py:46-51).
Launched(c) ==
  /\ At(c, "launch")
  /\ \E ok \in BOOLEAN :
       /\ ok => conn[c].ref \in drivers
       /\ IF ok
            THEN /\ browser' = conn[c].ref
                 /\ browsers' = browsers \cup {conn[c].ref}
                 /\ conn' = [conn EXCEPT ![c].pc = "new_page"]
                 /\ last' = NoLast
            ELSE /\ Answer(c, conn[c].req, Resp("error", OpFailed("launch")), TRUE)
                 /\ UNCHANGED <<browser, browsers>>
  /\ UNCHANGED <<prog, scripts, pw, page, drivers, pages, control>>

\* self.page = await self.browser.new_page(); start_browser returns, and a
\* navigate that called it goes on to self.page.goto (server.py:51-52, 67).
PageCreated(c) ==
  /\ At(c, "new_page")
  /\ \E ok \in BOOLEAN :
       /\ ok => conn[c].ref \in browsers
       /\ IF ok
            THEN /\ page' = conn[c].ref
                 /\ pages' = pages \cup {conn[c].ref}
                 /\ IF conn[c].req.tool = "navigate"
                      THEN conn' = [conn EXCEPT ![c].pc = "goto"] /\ last' = NoLast
                      ELSE Answer(c, conn[c].req, Resp("success", "Browser launched"), TRUE)
            ELSE /\ Answer(c, conn[c].req, Resp("error", OpFailed("new_page")), TRUE)
                 /\ UNCHANGED <<page, pages>>
  /\ UNCHANGED <<prog, scripts, pw, browser, drivers, browsers, control>>

\* GotoDone with a failed load discarding the page handle.
GotoDone_DropPage(c) ==
  /\ At(c, "goto")
  /\ \E ok \in BOOLEAN :
       /\ ok => conn[c].ref \in pages
       /\ IF ~ok
            THEN Answer(c, conn[c].req, Resp("error", OpFailed("goto")), TRUE) /\ page' = None
            ELSE /\ UNCHANGED page
                 /\ IF page = None
                      THEN Answer(c, conn[c].req, Resp("error", NoneHasNo("url")), TRUE)
                      ELSE conn' = [conn EXCEPT ![c].pc = "title", ![c].ref = page] /\ last' = NoLast
  /\ UNCHANGED <<prog, scripts, pw, browser, drivers, browsers, pages, control>>

\* await goto returns or raises; then self.page.url and the call of
\* self.page.title() on whatever self.page is now (server.py:67-68).
GotoDone(c) ==
  /\ At(c, "goto")
  /\ \E ok \in BOOLEAN :
       /\ ok => conn[c].ref \in pages
       /\ IF ~ok
            THEN Answer(c, conn[c].req, Resp("error", OpFailed("goto")), TRUE)
            ELSE IF page = None
                   THEN Answer(c, conn[c].req, Resp("error", NoneHasNo("url")), TRUE)
                   ELSE conn' = [conn EXCEPT ![c].pc = "title", ![c].ref = page] /\ last' = NoLast
  /\ UNCHANGED <<prog, scripts, session, control>>

\* server.py:99-102 up to the await.
CallGetTitle(c) ==
  /\ Reading(c)
  /\ \E rq \in Requests :
       /\ GoodCall(rq, {"get_title"})
       /\ IF page = None
            THEN Answer(c, rq, NoPageOpen, TRUE)
            ELSE Suspend(c, rq, "title", page, FALSE)
  /\ UNCHANGED <<prog, scripts, session, control>>

\* await self.page.title() returns or raises (server.py:68, 102).
TitleDone(c) ==
  /\ At(c, "title")
  /\ \E ok \in BOOLEAN :
       /\ ok => conn[c].ref \in pages
       /\ Answer(c, conn[c].req,
                 IF ok THEN [Resp("success", "") EXCEPT !.page = conn[c].ref]
                       ELSE Resp("error", OpFailed("title")), TRUE)
  /\ UNCHANGED <<prog, scripts, session, control>>

\* server.py:94-97: no await.
CallGetUrl(c) ==
  /\ Reading(c)
  /\ \E rq \in Requests :
       /\ GoodCall(rq, {"get_url"})
       /\ Answer(c, rq,
                 IF page = None THEN NoPageOpen
                                ELSE [Resp("success", "") EXCEPT !.page = page], TRUE)
  /\ UNCHANGED <<prog, scripts, session, control>>

\* The handlers that guard on self.page and then await one page operation
\* (server.py:70-92, 104-108).
PageOps == {"screenshot", "click", "type", "get_text", "evaluate"}

\* CallPageOp without the guard on self.page.
CallPageOp_NoGuard(c) ==
  /\ Reading(c)
  /\ \E rq \in Requests :
       /\ GoodCall(rq, PageOps)
       /\ Suspend(c, rq, "pageop", page, FALSE)
  /\ UNCHANGED <<prog, scripts, session, control>>

CallPageOp(c) ==
  /\ Reading(c)
  /\ \E rq \in Requests :
       /\ GoodCall(rq, PageOps)
       /\ IF page = None
            THEN Answer(c, rq, NoPageOpen, TRUE)
            ELSE Suspend(c, rq, "pageop", page, FALSE)
  /\ UNCHANGED <<prog, scripts, session, control>>

\* The page operation returns or raises.  What page.evaluate returns is the
\* script's value; json.dumps raises on one that is no JSON value
\* (server.py:107-108, 148).
PageOpDone(c) ==
  /\ At(c, "pageop")
  /\ \E ok \in BOOLEAN, ser \in BOOLEAN :
       /\ ok => conn[c].ref \in pages
       /\ ~ser => ok /\ conn[c].req.tool = "evaluate"
       /\ Answer(c, conn[c].req,
                 IF ok THEN [Resp("success", "") EXCEPT !.page = conn[c].ref]
                       ELSE Resp("error", OpFailed(conn[c].req.tool)), ser)
  /\ UNCHANGED <<prog, scripts, session, control>>

\* close_browser up to its first await (server.py:55-62).
CallClose(c) ==
  /\ Reading(c)
  /\ \E rq \in Requests :
       /\ GoodCall(rq, {"close"})
       /\ IF browser # None
            THEN Suspend(c, rq, "br_close", browser, FALSE)
            ELSE IF pw # None
                   THEN Suspend(c, rq, "pw_stop", pw, FALSE)
                   ELSE Answer(c, rq, Resp("success", ""), TRUE)
  /\ UNCHANGED <<prog, scripts, session, control>>

\* await self.browser.close() returns or raises; on return both handles are
\* cleared and self.pw is looked at (server.py:56-60).
BrowserClosed(c) ==
  /\ At(c, "br_close")
  /\ \E ok \in BOOLEAN :
       IF ok
         THEN /\ browsers' = browsers \ {conn[c].ref}
              /\ pages' = pages \ {conn[c].ref}
              /\ browser' = None
              /\ page' = None
              /\ IF pw # None
                   THEN conn' = [conn EXCEPT ![c].pc = "pw_stop", ![c].ref = pw] /\ last' = NoLast
                   ELSE Answer(c, conn[c].req, Resp("success", ""), TRUE)
         ELSE /\ Answer(c, conn[c].req, Resp("error", OpFailed("close")), TRUE)
              /\ UNCHANGED <<browser, page, browsers, pages>>
  /\ UNCHANGED <<prog, scripts, pw, drivers, control>>

\* await self.pw.stop() returns or raises (server.py:60-62).  Stopping a
\* driver ends the browser it launched.
PwStopped(c) ==
  /\ At(c, "pw_stop")
  /\ \E ok \in BOOLEAN :
       IF ok
         THEN /\ drivers' = drivers \ {conn[c].ref}
              /\ browsers' = browsers \ {conn[c].ref}
              /\ pages' = pages \ {conn[c].ref}
              /\ pw' = None
              /\ Answer(c, conn[c].req, Resp("success", ""), TRUE)
         ELSE /\ Answer(c, conn[c].req, Resp("error", OpFailed("stop")), TRUE)
              /\ UNCHANGED <<pw, drivers, browsers, pages>>
  /\ UNCHANGED <<prog, scripts, browser, page, control>>

\* json.dumps, writer.write and the await of drain (server.py:148-155).  The
\* try block writes and drains; json.dumps raising, or the drain raising, runs
\* the except block, which writes an error response and drains again; finally
\* closes the writer.  A drain returns at once, raises because the connection
\* is lost (and so does the one after it), or suspends until the peer has read.
DrainOutcomes == {"ok", "lost", "wait"}

AfterWrite(tried, d) ==
  IF tried
    THEN CASE d = "ok" -> [IdleConn EXCEPT !.pc = "closed", !.writes = 1]
           [] d = "lost" -> [IdleConn EXCEPT !.pc = "closed", !.writes = 2]
           [] OTHER -> [IdleConn EXCEPT !.pc = "drain", !.writes = 1]
    ELSE CASE d = "wait" -> [IdleConn EXCEPT !.pc = "drain2", !.writes = 1]
           [] OTHER -> [IdleConn EXCEPT !.pc = "closed", !.writes = 1]

WriteResponse(c) ==
  /\ prog = "server"
  /\ conn[c].pc \in {"respond", "raise"}
  /\ \E d \in DrainOutcomes : conn' = [conn EXCEPT ![c] = AfterWrite(conn[c].pc = "respond", d)]
  /\ UNCHANGED <<prog, scripts, session, control>> /\ last' = NoLast

\* The suspended drain of the try block returns or raises; a raise runs the
\* except block, whose own drain then finds the connection lost
\* (server.py:149-155).
DrainDone(c) ==
  /\ At(c, "drain")
  /\ \E ok \in BOOLEAN :
       conn' = [conn EXCEPT ![c].pc = "closed",
                            ![c].writes = IF ok THEN conn[c].writes ELSE conn[c].writes + 1]
  /\ UNCHANGED <<prog, scripts, session, control>> /\ last' = NoLast

\* The suspended drain of the except block returns or raises (server.py:152-155).
Drain2Done(c) ==
  /\ At(c, "drain2")
  /\ conn' = [conn EXCEPT ![c].pc = "closed"]
  /\ UNCHANGED <<prog, scripts, session, control>> /\ last' = NoLast

\* ---------------------------------------------------------------- run_server
\* asyncio.run ends by cancelling every task still pending: CancelledError is
\* no Exception, so a cancelled handle_client skips its except block and runs
\* finally (server.py:150-155, 207).
CancelAll ==
  [c \in Conns |->
     IF conn[c].pc \in {"idle", "closed"}
       THEN conn[c]
       ELSE [IdleConn EXCEPT !.pc = "closed", !.writes = conn[c].writes]]

\* server.py:158-161.
RunServer ==
  /\ prog = "server" /\ mainPc = "init"
  /\ running' = TRUE
  /\ listening' = TRUE
  /\ pidFile' = TRUE
  /\ mainPc' = "loop"
  /\ UNCHANGED <<prog, scripts, session, mainRef, conn>> /\ last' = NoLast

\* The poll loop sees self.running false and closes the listening socket
\* (server.py:163-167).
PollStop ==
  /\ prog = "server" /\ Quiet /\ mainPc = "loop" /\ ~running
  /\ listening' = FALSE
  /\ mainPc' = "wait_closed"
  /\ UNCHANGED <<prog, scripts, session, running, pidFile, mainRef, conn>> /\ last' = NoLast

\* run_server returns (server.py:169-170) and asyncio.run ends the loop.
Stopped ==
  /\ pidFile' = FALSE
  /\ mainPc' = "stopped"
  /\ mainRef' = None
  /\ conn' = CancelAll

\* An exception leaves run_server before PID_FILE.unlink (server.py:168-169).
Crashed ==
  /\ mainPc' = "crashed"
  /\ mainRef' = None
  /\ conn' = CancelAll
  /\ UNCHANGED pidFile

\* await self.server.wait_closed() returns (a build of asyncio either waits
\* for the open connections or does not), and close_browser runs up to its
\* first await (server.py:167-168, 55-62).
WaitClosed ==
  /\ prog = "server" /\ Quiet /\ mainPc = "wait_closed"
  /\ IF browser # None
       THEN mainPc' = "br_close" /\ mainRef' = browser /\ UNCHANGED <<pidFile, conn>>
       ELSE IF pw # None
              THEN mainPc' = "pw_stop" /\ mainRef' = pw /\ UNCHANGED <<pidFile, conn>>
              ELSE Stopped
  /\ UNCHANGED <<prog, scripts, session, running, listening>> /\ last' = NoLast

\* close_browser in the run_server task: browser.close() returns or raises
\* (server.py:56-60, 168).
MainBrowserClosed ==
  /\ prog = "server" /\ Quiet /\ mainPc = "br_close"
  /\ \E ok \in BOOLEAN :
       IF ok
         THEN /\ browsers' = browsers \ {mainRef}
              /\ pages' = pages \ {mainRef}
              /\ browser' = None
              /\ page' = None
              /\ IF pw # None
                   THEN mainPc' = "pw_stop" /\ mainRef' = pw /\ UNCHANGED <<pidFile, conn>>
                   ELSE Stopped
         ELSE Crashed /\ UNCHANGED <<browser, page, browsers, pages>>
  /\ UNCHANGED <<prog, scripts, pw, drivers, running, listening>> /\ last' = NoLast

\* close_browser in the run_server task: pw.stop() returns or raises
\* (server.py:60-62, 168-170).
MainPwStopped ==
  /\ prog = "server" /\ Quiet /\ mainPc = "pw_stop"
  /\ \E ok \in BOOLEAN :
       IF ok
         THEN /\ drivers' = drivers \ {mainRef}
              /\ browsers' = browsers \ {mainRef}
              /\ pages' = pages \ {mainRef}
              /\ pw' = None
              /\ Stopped
         ELSE Crashed /\ UNCHANGED <<pw, drivers, browsers, pages>>
  /\ UNCHANGED <<prog, scripts, browser, page, running, listening>> /\ last' = NoLast

\* ------------------------------------------------------------------ executor
\* call_tool (executor.py:248-260) runs to completion before the next call:
\* each action is one call, with the outcome of every awaited operation
\* an input.  launch_browser's driver is a local and is never stopped
\* (executor.py:38).
ExecAnswer(rq, rs) == last' = [req |-> rq, resp |-> rs]

ExecRequests == {rq \in CallRequests : WellFormed(rq) /\ rq.cmd = ""}

\* The name of TOOLS[tool]["fn"] (executor.py:177-233).
FnName(tool) == IF tool = "type" THEN "type_text" ELSE tool

\* str(TypeError) of fn(**args) with required parameters missing
\* (executor.py:257-260).
ExecTypeError(tool, args) ==
  LET req == Required(tool)
      miss == SelectSeq(req, LAMBDA k : k \notin args)
  IN FnName(tool) \o "() missing "
       \o (IF Len(miss) = 1
             THEN "1 required positional argument: '" \o miss[1] \o "'"
             ELSE "2 required positional arguments: '" \o miss[1] \o "' and '" \o miss[2] \o "'")

\* executor.py:250-251.
ExecUnknown ==
  /\ prog = "executor"
  /\ \E rq \in ExecRequests :
       /\ rq.tool \notin ExecTools
       /\ ExecAnswer(rq, UnknownTool(rq.tool))
  /\ UNCHANGED <<prog, scripts, session, control, conn>>

\* executor.py:257-260: fn(**args) raises TypeError before fn is entered.
ExecMissingArg ==
  /\ prog = "executor"
  /\ \E rq \in ExecRequests :
       /\ rq.tool \in ExecTools /\ MissingArgs(rq.tool, rq.args)
       /\ ExecAnswer(rq, Resp("error", ExecTypeError(rq.tool, rq.args)))
  /\ UNCHANGED <<prog, scripts, session, control, conn>>

ExecGood(rq, tools) == rq.tool \in tools /\ ~MissingArgs(rq.tool, rq.args)

\* launch_browser past its guard (executor.py:38-49): how far it gets
\* ("start", "launch", "new_page" raise there; "done" returns) decides what
\* it leaves behind.
LaunchStages == {"start", "launch", "new_page", "done"}

ExecDoLaunch(upto) ==
  /\ drivers' = IF upto = "start" THEN drivers ELSE drivers \cup {NewId}
  /\ browsers' = IF upto \in {"start", "launch"} THEN browsers ELSE browsers \cup {NewId}
  /\ browser' = IF upto \in {"start", "launch"} THEN browser ELSE NewId
  /\ pages' = IF upto = "done" THEN pages \cup {NewId} ELSE pages
  /\ page' = IF upto = "done" THEN NewId ELSE page

\* executor.py:31-49.
ExecLaunch ==
  /\ prog = "executor"
  /\ \E rq \in ExecRequests, upto \in LaunchStages :
       /\ ExecGood(rq, {"launch"})
       /\ IF browser # None
            THEN /\ ExecAnswer(rq, Resp("already_running", "Browser already launched"))
                 /\ UNCHANGED <<browser, page, drivers, browsers, pages>>
            ELSE /\ FreeIds # {}
                 /\ ExecDoLaunch(upto)
                 /\ ExecAnswer(rq, IF upto = "done" THEN Resp("success", "Browser launched")
                                                    ELSE Resp("error", OpFailed(upto)))
  /\ UNCHANGED <<prog, scripts, pw, control, conn>>

\* executor.py:52-61.
ExecClose ==
  /\ prog = "executor"
  /\ \E rq \in ExecRequests, ok \in BOOLEAN :
       /\ ExecGood(rq, {"close"})
       /\ IF browser = None
            THEN /\ ExecAnswer(rq, Resp("not_running", "No browser to close"))
                 /\ UNCHANGED <<browser, page, browsers, pages>>
            ELSE IF ok
                   THEN /\ browsers' = browsers \ {browser}
                        /\ pages' = pages \ {browser}
                        /\ browser' = None
                        /\ page' = None
                        /\ ExecAnswer(rq, Resp("success", "Browser closed"))
                   ELSE /\ ExecAnswer(rq, Resp("error", OpFailed("close")))
                        /\ UNCHANGED <<browser, page, browsers, pages>>
  /\ UNCHANGED <<prog, scripts, pw, drivers, control, conn>>

\* executor.py:64-76.  nav: how the goto and title awaits go once a page is
\* there ("goto", "title" raise there; "done" returns).
ExecNavigate ==
  /\ prog = "executor"
  /\ \E rq \in ExecRequests, upto \in LaunchStages, nav \in {"goto", "title", "done"} :
       /\ ExecGood(rq, {"navigate"})
       /\ IF page # None
            THEN /\ UNCHANGED <<browser, page, drivers, browsers, pages>>
                 /\ ExecAnswer(rq, IF nav = "done"
                                     THEN [Resp("success", "") EXCEPT !.page = page]
                                     ELSE Resp("error", OpFailed(nav)))
            ELSE IF browser # None
                   THEN /\ UNCHANGED <<browser, page, drivers, browsers, pages>>
                        /\ ExecAnswer(rq, Resp("error", NoneHasNo("goto")))
                   ELSE /\ FreeIds # {}
                        /\ ExecDoLaunch(upto)
                        /\ ExecAnswer(rq, IF upto # "done" THEN Resp("error", OpFailed(upto))
                                          ELSE IF nav = "done"
                                                 THEN [Resp("success", "") EXCEPT !.page = NewId]
                                                 ELSE Resp("error", OpFailed(nav)))
  /\ UNCHANGED <<prog, scripts, pw, control, conn>>

\* executor.py:84, 102: the screenshot tools' text; executor.py:117-171: the others'.
ExecNoPage(tool) ==
  IF tool \in {"screenshot", "screenshot_base64"}
    THEN Resp("error", "No page open. Navigate first.")
    ELSE NoPageOpen

ExecPageTools == {"screenshot", "screenshot_base64", "click", "type", "get_text",
                  "wait_for", "get_url", "get_title"}

\* executor.py:79-173: guard on _page, then one page operation (none for
\* get_url).
ExecPageOp ==
  /\ prog = "executor"
  /\ \E rq \in ExecRequests, ok \in BOOLEAN :
       /\ ExecGood(rq, ExecPageTools)
       /\ rq.tool = "get_url" => ok
       /\ ExecAnswer(rq, IF page = None THEN ExecNoPage(rq.tool)
                         ELSE IF ok THEN [Resp("success", "") EXCEPT !.page = page]
                         ELSE Resp("error", OpFailed(rq.tool)))
  /\ UNCHANGED <<prog, scripts, session, control, conn>>

\* ------------------------------------------------------------ specification
\* BrowserServer.__init__ (server.py:35-40); the module globals of
\* executor.py (executor.py:27-28).
\* ------------------------------------------------------------ server.py start
\* main's "start" branch (server.py:193-207) followed by run_server up to the
\* pid write (server.py:158-160), run by several processes at once.  Every
\* action is one system call of one process: between two of them any other
\* process may run.
NumStarters == 2
Starters == 1..NumStarters
\* The pid that the record holds when the start commands begin.
OldPid == NumStarters + 1

\* pc: "exists" (server.py:195), "read" (196), "kill" (198), "unlink" (202),
\* "bind" (159), "write" (160), then "running" (the poll loop), "exit0"
\* (sys.exit(0), server.py:200) or "crashed" (an uncaught exception).
\* pid is the local of main (server.py:196).
NewStarter == [pc |-> "exists", pid |-> None]

Ended_Starter == {"running", "exit0", "crashed"}

StarterAt(p, pc) == prog = "start" /\ starter[p].pc = pc

\* The process leaves pc for the position `to`.
Goto(p, to) == starter' = [starter EXCEPT ![p].pc = to]

\* An uncaught exception ends the process; it is no longer alive.
Crash(p) == Goto(p, "crashed") /\ alive' = alive \ {p}

\* if PID_FILE.exists() (server.py:195).
StartExists(p) ==
  /\ StarterAt(p, "exists")
  /\ Goto(p, IF record = None THEN "bind" ELSE "read")
  /\ UNCHANGED <<prog, relay, old, client, crawl, search, gsearch, pipeline, record, port, alive>>

\* pid = int(PID_FILE.read_text()) (server.py:196): FileNotFoundError when
\* the file has been removed since the test.
StartRead(p) ==
  /\ StarterAt(p, "read")
  /\ IF record = None
       THEN Crash(p)
       ELSE starter' = [starter EXCEPT ![p] = [pc |-> "kill", pid |-> record]]
            /\ UNCHANGED alive
  /\ UNCHANGED <<prog, relay, old, client, crawl, search, gsearch, pipeline, record, port>>

\* os.kill(pid, 0) (server.py:198-201): returns for a live process, and
\* the command prints and exits 0; raises OSError for a dead one.
StartKill(p) ==
  /\ StarterAt(p, "kill")
  /\ IF starter[p].pid \in alive
       THEN Goto(p, "exit0") /\ alive' = alive \ {p}
       ELSE Goto(p, "unlink") /\ UNCHANGED alive
  /\ UNCHANGED <<prog, relay, old, client, crawl, search, gsearch, pipeline, record, port>>

\* PID_FILE.unlink() (server.py:202): removes whatever file is there now,
\* FileNotFoundError when there is none.
StartUnlink(p) ==
  /\ StarterAt(p, "unlink")
  /\ IF record = None
       THEN Crash(p) /\ UNCHANGED record
       ELSE Goto(p, "bind") /\ record' = None /\ UNCHANGED alive
  /\ UNCHANGED <<prog, relay, old, client, crawl, search, gsearch, pipeline, port>>

\* asyncio.start_server binds PORT (server.py:159): OSError, uncaught, when
\* another process is bound to it.
StartBind(p) ==
  /\ StarterAt(p, "bind")
  /\ IF port # None
       THEN Crash(p) /\ UNCHANGED port
       ELSE Goto(p, "write") /\ port' = p /\ UNCHANGED alive
  /\ UNCHANGED <<prog, relay, old, client, crawl, search, gsearch, pipeline, record>>

\* PID_FILE.write_text(str(os.getpid())) (server.py:160); the server is RUNNING.
StartWrite(p) ==
  /\ StarterAt(p, "write")
  /\ Goto(p, "running")
  /\ record' = p
  /\ UNCHANGED <<prog, relay, old, client, crawl, search, gsearch, pipeline, port, alive>>

\* The server that was running before the start commands, from the moment
\* its stop branch has answered "Server stopping" and cleared self.running
\* (server.py:140-142).  old: "none" (no such server), "up" (it runs and has
\* not been stopped), "poll" (in the sleep of server.py:163-164),
\* "teardown" (server.py:167-168), "unlink" (169), "exit" (170), "gone".

\* self.server.close() (server.py:166): the port is free again.
OldClose ==
  /\ prog = "start" /\ old = "poll"
  /\ old' = "teardown"
  /\ port' = None
  /\ UNCHANGED <<prog, relay, client, crawl, search, gsearch, pipeline, record, alive, starter>>

\* await self.close_browser() (server.py:168): returns, or raises and ends
\* the process before the unlink.
OldTeardown ==
  /\ prog = "start" /\ old = "teardown"
  /\ \E ok \in BOOLEAN :
       IF ok THEN old' = "unlink" /\ UNCHANGED alive
             ELSE old' = "gone" /\ alive' = alive \ {OldPid}
  /\ UNCHANGED <<prog, relay, client, crawl, search, gsearch, pipeline, record, port, starter>>

\* PID_FILE.unlink(missing_ok=True) (server.py:169): removes whatever file
\* is there now.
OldUnlink ==
  /\ prog = "start" /\ old = "unlink"
  /\ old' = "exit"
  /\ record' = None
  /\ UNCHANGED <<prog, relay, client, crawl, search, gsearch, pipeline, port, alive, starter>>

\* run_server returns (server.py:170) and the process ends.
OldExit ==
  /\ prog = "start" /\ old = "exit"
  /\ old' = "gone"
  /\ alive' = alive \ {OldPid}
  /\ UNCHANGED <<prog, relay, client, crawl, search, gsearch, pipeline, record, port, starter>>

\* --------------------------------------------------------------- send_command
\* The size of the one read on either side: reader.read(65536) in
\* handle_client (server.py:137) and sock.recv(65536) in send_command
\* (server.py:180).
BufSize == 65536

\* Lengths in bytes of a serialized request or response: short, exactly the
\* buffer, and one byte more than the buffer.
Lengths == {2, BufSize, BufSize + 1}

\* The bytes of a message of length n that have arrived when the peer's one
\* read returns: TCP delivers a stream, so any non-empty prefix.
Arrived(n) == {k \in Lengths \cup {1} : k <= n}

Min(a, b) == IF a <= b THEN a ELSE b

\* Values passed to send_command: a tool call that json.dumps can serialize
\* to `len` bytes, or a value it cannot serialize (len is then unused).
ClientData ==
  [tool : {"get_url", "evaluate"}, ser : {TRUE}, len : Lengths]
    \cup [tool : {"get_url"}, ser : {FALSE}, len : {2}]

\* Responses the server produces for a dispatched call, with the length of
\* their serialized form.
Replies == [status : {"success", "error"}, msg : {"", "No page open"}, len : Lengths]

\* No response was written: the connection was closed without one.
NoReply == [status |-> "none", msg |-> "", len |-> 0]

\* json.dumps(x).encode(): the text of value x, `len` bytes long.
Dumps(x, len) == [of |-> x, len |-> len]

\* One read of at most BufSize bytes when `avail` bytes of text t have arrived.
ReadOnce(t, avail) == [of |-> t.of, len |-> t.len, got |-> Min(avail, BufSize)]

\* json.loads of what was read: the value when the whole text was read, and
\* JSONDecodeError for an empty or cut-off text.
Loads(b) == IF b.got = b.len THEN [ok |-> TRUE, value |-> b.of]
                             ELSE [ok |-> FALSE, value |-> None]

NoBytes == [of |-> None, len |-> 0, got |-> 0]

\* What send_command hands back: a returned response, or an exception that
\* leaves the function.
Returned(st, m) == [kind |-> "returned", status |-> st, msg |-> m]
Raised(e) == [kind |-> "raised", status |-> "", msg |-> e]
NoResult == [kind |-> "none", status |-> "", msg |-> ""]

NotRunningText == "Server not running. Start with: python server.py start"

\* The exceptions the body of send_command can raise, all of them
\* subclasses of Exception, and str(e) of each.
Exceptions == {"ConnectionRefusedError", "ConnectionResetError", "TimeoutError",
               "TypeError", "JSONDecodeError"}

ExcText(e) ==
  CASE e = "ConnectionRefusedError" -> "[Errno 111] Connection refused"
    [] e = "ConnectionResetError" -> "[Errno 104] Connection reset by peer"
    [] e = "TimeoutError" -> "[Errno 110] Connection timed out"
    [] e = "TypeError" -> "Object of type set is not JSON serializable"
    [] OTHER -> "Expecting value: line 1 column 1 (char 0)"

\* Catch with the second except clause naming OSError only.
Catch_OSErrorOnly(e) ==
  IF e = "ConnectionRefusedError" THEN Returned("error", NotRunningText)
  ELSE IF e \in {"ConnectionResetError", "TimeoutError"} THEN Returned("error", ExcText(e))
  ELSE Raised(e)

\* The except clauses of send_command (server.py:183-186).
Catch(e) ==
  IF e = "ConnectionRefusedError" THEN Returned("error", NotRunningText)
  ELSE IF e \in Exceptions THEN Returned("error", ExcText(e))
  ELSE Raised(e)

\* One call of send_command(data) and the server task that serves it.
\* pc: "connect" (server.py:178), "send" (179), "served" (the server reads
\* and answers, server.py:137-149), "recv" (180), "loads" (181-182), "done".
\* up: a server is listening.  connects: the calls of sock.connect.
\* dispatched: the tool of the request handle_call was given, "" if none was.
\* reply: the response the server wrote, NoReply if it wrote none.
\* rcvd: what sock.recv returned.  exc: the exception raised in the try block.
NewClient(up, data) ==
  [pc |-> "connect", up |-> up, data |-> data, connects |-> 0,
   dispatched |-> "", reply |-> NoReply, rcvd |-> NoBytes, exc |-> "", result |-> NoResult]

ClientAt(pc) == prog = "client" /\ client.pc = pc

\* The try block raises e: the matching except clause returns (server.py:183-186).
ClientRaise(e) ==
  client' = [client EXCEPT !.pc = "done", !.exc = e, !.result = Catch(e)]

\* ClientConnect with a second attempt after a refused connection.
ClientConnect_Retry ==
  /\ ClientAt("connect")
  /\ IF ~client.up
       THEN IF client.connects = 0
              THEN client' = [client EXCEPT !.connects = 1]
              ELSE client' = [client EXCEPT !.pc = "done", !.connects = 2,
                                             !.exc = "ConnectionRefusedError",
                                             !.result = Catch("ConnectionRefusedError")]
       ELSE client' = [client EXCEPT !.pc = "send", !.connects = @ + 1]
  /\ UNCHANGED <<prog, relay, startup, crawl, search, gsearch, pipeline>>

\* sock.connect (server.py:177-178): refused when nothing listens; with a
\* server listening it succeeds or times out.
ClientConnect ==
  /\ ClientAt("connect")
  /\ IF ~client.up
       THEN client' = [client EXCEPT !.pc = "done", !.connects = @ + 1,
                                      !.exc = "ConnectionRefusedError",
                                      !.result = Catch("ConnectionRefusedError")]
       ELSE \E ok \in BOOLEAN :
              IF ok THEN client' = [client EXCEPT !.pc = "send", !.connects = @ + 1]
                    ELSE client' = [client EXCEPT !.pc = "done", !.connects = @ + 1,
                                                   !.exc = "TimeoutError",
                                                   !.result = Catch("TimeoutError")]
  /\ UNCHANGED <<prog, relay, startup, crawl, search, gsearch, pipeline>>

\* sock.send(json.dumps(data).encode()) (server.py:179): json.dumps raises
\* TypeError, or the bytes are sent, or the connection is reset.
ClientSend ==
  /\ ClientAt("send")
  /\ IF ~client.data.ser
       THEN ClientRaise("TypeError")
       ELSE \E ok \in BOOLEAN :
              IF ok THEN client' = [client EXCEPT !.pc = "served"]
                    ELSE ClientRaise("ConnectionResetError")
  /\ UNCHANGED <<prog, relay, startup, crawl, search, gsearch, pipeline>>

\* The server's handle_client for this connection (server.py:137-149): one
\* read of whatever has arrived, json.loads, the dispatch of the request and
\* the write of a response; or, cut short at shutdown, no response.
ServeClient ==
  /\ ClientAt("served")
  /\ \E avail \in Arrived(client.data.len), r \in Replies, answered \in BOOLEAN :
       LET rq == Loads(ReadOnce(Dumps(client.data.tool, client.data.len), avail)) IN
         IF rq.ok
           THEN client' = [client EXCEPT !.pc = "recv", !.dispatched = rq.value,
                                          !.reply = IF answered THEN r ELSE NoReply]
           ELSE /\ r = [status |-> "error", msg |-> ExcText("JSONDecodeError"), len |-> 2]
                /\ client' = [client EXCEPT !.pc = "recv",
                                              !.reply = IF answered THEN r ELSE NoReply]
  /\ UNCHANGED <<prog, relay, startup, crawl, search, gsearch, pipeline>>

\* response = sock.recv(65536) (server.py:180): the bytes of the reply that
\* have arrived, b"" when the server closed without replying, or a reset.
ClientRecv ==
  /\ ClientAt("recv")
  /\ \/ ClientRaise("ConnectionResetError")
     \/ /\ client.reply = NoReply
        /\ client' = [client EXCEPT !.pc = "loads", !.rcvd = NoBytes]
     \/ /\ client.reply # NoReply
        /\ \E avail \in Arrived(client.reply.len) :
             client' = [client EXCEPT !.pc = "loads",
                          !.rcvd = ReadOnce(Dumps(client.reply, client.reply.len), avail)]
  /\ UNCHANGED <<prog, relay, startup, crawl, search, gsearch, pipeline>>

\* sock.close(); return json.loads(response.decode()) (server.py:181-182).
ClientLoads ==
  /\ ClientAt("loads")
  /\ LET v == Loads(client.rcvd) IN
       IF v.ok /\ client.rcvd.len > 0
         THEN client' = [client EXCEPT !.pc = "done",
                                        !.result = Returned(v.value.status, v.value.msg)]
         ELSE ClientRaise("JSONDecodeError")
  /\ UNCHANGED <<prog, relay, startup, crawl, search, gsearch, pipeline>>

\* ----------------------------------------------------------- batch_crawler.py
\* URLs in one batch.
MaxUrls == 3

\* What result.extracted_content can be: JSON text, text that json.loads
\* rejects, or nothing (None or "").
Contents == {"json", "garbage", "empty"}

\* The CrawlResult that arun_many returns for the URL at position u: its
\* success flag and its extracted content.
CrawlResults(u) == [url : {u}, success : BOOLEAN, content : Contents]

\* No file has been written.
NoOutput == [file |-> "", success_count |-> 0, failed_count |-> 0,
             results |-> << >>, failed |-> << >>, hasFailed |-> FALSE]

\* Options on the command line, sys.argv[2:].
MaxOpts == 3

\* The words an option list is made of: the two flags, a number and a
\* file name.
Words == {"--max-concurrent", "--extract", "3", "schema.json"}

\* int(word) (batch_crawler.py:224): defined on the words that are numbers,
\* ValueError on the others.
IntOf == [w \in {"3"} |-> 3]

\* word.startswith("--") (batch_crawler.py:227).
StartsWithDashes(w) == w \in {"--max-concurrent", "--extract"}

\* max_concurrent = 5 (batch_crawler.py:218).
DefaultConcurrent == 5

\* max_concurrent=5 in crawl_with_extraction (batch_crawler.py:148).
ExtractConcurrent == 5

\* The locals of main before the option loop (batch_crawler.py:218-220);
\* schema_file None is "", raised says that int() raised ValueError.
NoOptions == [max_concurrent |-> DefaultConcurrent, extract_mode |-> FALSE,
              schema_file |-> "", raised |-> FALSE]

\* The option loop of main from word k on (batch_crawler.py:222-228); word
\* k of argv is sys.argv[k + 1], so i + 1 < len(sys.argv) reads k < Len(argv).
RECURSIVE ParseOptions(_, _, _)
ParseOptions(argv, k, o) ==
  IF o.raised \/ k > Len(argv) THEN o
  ELSE ParseOptions(argv, k + 1,
         IF argv[k] = "--max-concurrent" /\ k < Len(argv)
           THEN IF argv[k + 1] \in DOMAIN IntOf
                  THEN [o EXCEPT !.max_concurrent = IntOf[argv[k + 1]]]
                  ELSE [o EXCEPT !.raised = TRUE]
         ELSE IF argv[k] = "--extract"
           THEN [o EXCEPT !.extract_mode = TRUE,
                          !.schema_file = IF k < Len(argv) /\ ~StartsWithDashes(argv[k + 1])
                                            THEN argv[k + 1] ELSE @]
         ELSE o)

\* One run of main (batch_crawler.py:181-233) on n URLs with the options
\* argv: mode is "batch" (crawl_batch) or "extract" (crawl_with_extraction).
\* pc: "parse" (the option loop), "fetch" (the await of arun_many), "loop"
\* (the for loop, at result i), "save" (the json.dump), "done", or
\* "crashed" (an uncaught exception).  results and failed are the lists of
\* crawl_batch (extracted_data is results in extract mode), as URL
\* positions.  calls counts the calls of arun_many and bound is the
\* max_concurrent of the last one.
NewCrawl(argv, n) ==
  [pc |-> "parse", argv |-> argv, mode |-> "batch",
   max_concurrent |-> DefaultConcurrent, schema_file |-> "",
   calls |-> 0, bound |-> 0,
   n |-> n, fetched |-> << >>, i |-> 1,
   results |-> << >>, failed |-> << >>, output |-> NoOutput]

\* The option loop and the choice of the mode (batch_crawler.py:217-233).
CrawlParse ==
  /\ prog = "crawl" /\ crawl.pc = "parse"
  /\ LET o == ParseOptions(crawl.argv, 1, NoOptions) IN
       crawl' = IF o.raised
                  THEN [crawl EXCEPT !.pc = "crashed"]
                  ELSE [crawl EXCEPT !.pc = "fetch",
                                     !.mode = IF o.extract_mode THEN "extract" ELSE "batch",
                                     !.max_concurrent = o.max_concurrent,
                                     !.schema_file = o.schema_file]
  /\ UNCHANGED <<prog, relay, startup, client, search, gsearch, pipeline>>

CrawlAt(pc, mode) == prog = "crawl" /\ crawl.pc = pc /\ crawl.mode = mode

\* batch_results = await crawler.arun_many(urls=urls, ...): one result per
\* URL (batch_crawler.py:53-57, 145-149; test_advanced_patterns.py:51-56).
\* A failed result has no extracted content, and crawl_batch configures no
\* extraction.
CrawlFetch ==
  /\ prog = "crawl" /\ crawl.pc = "fetch"
  /\ \E rs \in [1..crawl.n -> BOOLEAN \X Contents] :
       /\ \A u \in 1..crawl.n : (crawl.mode = "batch" \/ ~rs[u][1]) => rs[u][2] = "empty"
       /\ crawl' = [crawl EXCEPT
            !.pc = "loop",
            !.calls = @ + 1,
            !.bound = IF crawl.mode = "batch" THEN crawl.max_concurrent
                                              ELSE ExtractConcurrent,
            !.fetched = [u \in 1..crawl.n |->
                           [url |-> u, success |-> rs[u][1], content |-> rs[u][2]]]]
  /\ UNCHANGED <<prog, relay, startup, client, search, gsearch, pipeline>>

\* The position after result i has been handled.
Advance(c) == IF c.i = c.n THEN [c EXCEPT !.pc = "save"] ELSE [c EXCEPT !.i = c.i + 1]

\* BatchSort with a failed result dropped instead of recorded.
BatchSort_Drop ==
  /\ CrawlAt("loop", "batch")
  /\ LET r == crawl.fetched[crawl.i] IN
       crawl' = Advance(IF r.success
                          THEN [crawl EXCEPT !.results = Append(@, r.url)]
                          ELSE crawl)
  /\ UNCHANGED <<prog, relay, startup, client, search, gsearch, pipeline>>

\* One iteration of the loop of crawl_batch (batch_crawler.py:59-75).
BatchSort ==
  /\ CrawlAt("loop", "batch")
  /\ LET r == crawl.fetched[crawl.i] IN
       crawl' = Advance(IF r.success
                          THEN [crawl EXCEPT !.results = Append(@, r.url)]
                          ELSE [crawl EXCEPT !.failed = Append(@, r.url)])
  /\ UNCHANGED <<prog, relay, startup, client, search, gsearch, pipeline>>

\* output = {...}; json.dump(output, f) (batch_crawler.py:78-86), and the
\* markdown files of the successful results (batch_crawler.py:89-110).
BatchSave ==
  /\ CrawlAt("save", "batch")
  /\ crawl' = [crawl EXCEPT
       !.pc = "done",
       !.output = [file |-> "batch_results.json",
                   success_count |-> Len(crawl.results),
                   failed_count |-> Len(crawl.failed),
                   results |-> crawl.results,
                   failed |-> crawl.failed,
                   hasFailed |-> TRUE]]
  /\ UNCHANGED <<prog, relay, startup, client, search, gsearch, pipeline>>

\* One iteration of the loop of crawl_with_extraction
\* (batch_crawler.py:151-161): a result is kept when it succeeded, has
\* content and the content parses; every other result is passed over.
ExtractSort ==
  /\ CrawlAt("loop", "extract")
  /\ LET r == crawl.fetched[crawl.i] IN
       crawl' = Advance(IF r.success /\ r.content = "json"
                          THEN [crawl EXCEPT !.results = Append(@, r.url)]
                          ELSE crawl)
  /\ UNCHANGED <<prog, relay, startup, client, search, gsearch, pipeline>>

\* json.dump(extracted_data, f) (batch_crawler.py:164-168): the file holds
\* the list of extracted items and nothing else.
ExtractSave ==
  /\ CrawlAt("save", "extract")
  /\ crawl' = [crawl EXCEPT
       !.pc = "done",
       !.output = [file |-> "batch_extracted.json",
                   success_count |-> 0,
                   failed_count |-> 0,
                   results |-> crawl.results,
                   failed |-> << >>,
                   hasFailed |-> FALSE]]
  /\ UNCHANGED <<prog, relay, startup, client, search, gsearch, pipeline>>

\* ---------------------------------------------------------- google_search.py
\* Distinct links that the result pages can show.
MaxLinks == 2
\* h3 elements on one result page.
MaxH3 == 2
\* The largest max_results tried.
MaxWanted == 3
\* The extraction script looks at the first 15 h3 elements only
\* (google_search.py:88).
H3Limit == 15

\* The link of the anchor beside an h3 element; None for an h3 without one.
Links == 1..MaxLinks

\* A result page: the links of its h3 elements in document order.
Pages == UNION {[1..k -> Links \cup {None}] : k \in 0..MaxH3}

\* The script of _extract_results (google_search.py:82-120) on the h3
\* elements hs, with `seen` the links already pushed: an h3 is pushed when
\* it is among the first 15, has a link and the link is not in seen.
RECURSIVE ExtractFrom(_, _, _)
ExtractFrom(hs, k, seen) ==
  IF k > Len(hs) \/ k > H3Limit
    THEN << >>
    ELSE IF hs[k] # None /\ hs[k] \notin seen
           THEN <<hs[k]>> \o ExtractFrom(hs, k + 1, seen \cup {hs[k]})
           ELSE ExtractFrom(hs, k + 1, seen)

\* _extract_results (google_search.py:80-126): the script's list when the
\* evaluate call answers success, [] otherwise.
\* The entries the page script pushes: each carries its link and
\* rank: results.length + 1 (google_search.py:109-114).
Ranked(links) == [k \in 1..Len(links) |-> [link |-> links[k], rank |-> k]]

ExtractResults(hs, ok) == IF ok THEN Ranked(ExtractFrom(hs, 1, {})) ELSE << >>

\* results[:max_results] (google_search.py:76).
Take(list, n) == SubSeq(list, 1, Min(Len(list), n))

\* One call of GoogleSearcher.search (google_search.py:31-78).  page1 and
\* page2 are the two result pages, hasNext whether page 1 has the #pnnext
\* button, wanted is max_results, shown the page the browser shows.  pc:
\* "extract1" (line 60), "next" (63-67), "extract2" (68-69), "finish"
\* (72-78), "done".  results holds the links of the result dictionaries.
NewSearch(p1, p2, hasNext, wanted) ==
  [pc |-> "extract1", page1 |-> p1, page2 |-> p2, hasNext |-> hasNext,
   wanted |-> wanted, shown |-> 1, results |-> << >>]

SearchAt(pc) == prog = "search" /\ search.pc = pc

\* The h3 elements of the page the browser shows.
Shown_h3 == IF search.shown = 1 THEN search.page1 ELSE search.page2

\* results = self._extract_results() (google_search.py:60).
SearchExtract1 ==
  /\ SearchAt("extract1")
  /\ \E ok \in BOOLEAN :
       search' = [search EXCEPT !.pc = "next", !.results = ExtractResults(Shown_h3, ok)]
  /\ UNCHANGED <<prog, relay, startup, client, crawl, gsearch, pipeline>>

\* if len(results) < max_results: self._click_next_page()
\* (google_search.py:63-67, 128-140): the click happens only when the
\* button exists and the evaluate call goes through.
SearchNextPage ==
  /\ SearchAt("next")
  /\ IF Len(search.results) < search.wanted
       THEN \E ok \in BOOLEAN :
              search' = [search EXCEPT !.pc = "extract2",
                           !.shown = IF search.hasNext /\ ok THEN 2 ELSE 1]
       ELSE search' = [search EXCEPT !.pc = "finish"]
  /\ UNCHANGED <<prog, relay, startup, client, crawl, gsearch, pipeline>>

\* page2_results = self._extract_results(); results.extend(page2_results)
\* (google_search.py:68-69).
SearchExtract2 ==
  /\ SearchAt("extract2")
  /\ \E ok \in BOOLEAN :
       search' = [search EXCEPT !.pc = "finish",
                                 !.results = @ \o ExtractResults(Shown_h3, ok)]
  /\ UNCHANGED <<prog, relay, startup, client, crawl, gsearch, pipeline>>

\* for i, result in enumerate(results): result["rank"] = i + 1
\* (google_search.py:72-73).
Renumber(list) == [i \in 1..Len(list) |-> [list[i] EXCEPT !.rank = i]]

\* The end of search with the renumbering loop left out: the entries keep the
\* ranks their page script gave them.
SearchFinish_NoRenumber ==
  /\ SearchAt("finish")
  /\ search' = [search EXCEPT !.pc = "done", !.results = Take(@, search.wanted)]
  /\ UNCHANGED <<prog, relay, startup, client, crawl, gsearch, pipeline>>

\* The renumbering and self.results = results[:max_results]
\* (google_search.py:72-78).
SearchFinish ==
  /\ SearchAt("finish")
  /\ search' = [search EXCEPT !.pc = "done",
                              !.results = Take(Renumber(@), search.wanted)]
  /\ UNCHANGED <<prog, relay, startup, client, crawl, gsearch, pipeline>>

\* ------------------------------------------- crawl4ai-skill google_search.py
\* Entries in one extracted list, and the largest max_results.
MaxEntries == 2
MaxResults == 2

\* The titles and links an extracted entry can carry: none, blank, text; none,
\* a URL, the same URL behind Google's redirect prefix, a fragment link.
Titles == {"", " ", "t"}
Hrefs == {"", "a", "/url?q=a", "#frag"}

\* What crawler.arun returns: success, the shape of extracted_content (of
\* html, for the HTML path) and the entries in it.  The content is nothing,
\* text that json.loads rejects, a JSON list, or a JSON object with the list
\* under "search_results", under "results", or without either key.
Fetched ==
  {f \in [success : BOOLEAN,
          shape : {"none", "garbage", "list", "search_results", "results", "other"},
          entries : UNION {[1..m -> [title : Titles, link : Hrefs]] : m \in 0..MaxEntries}] :
     f.shape \in {"none", "garbage", "other"} => f.entries = << >>}

\* link.startswith("/url?q=") and parse_qs(...).get("q", [link])[0]
\* (google_search.py:112-115, 236-239).
CleanLink(l) == IF l = "/url?q=a" THEN "a" ELSE l

\* str.strip (google_search.py:251-252).
Strip(t) == IF t = " " THEN "" ELSE t

\* The filter loop of search_google_css from entry k on
\* (google_search.py:106-121).
RECURSIVE ValidResults(_, _, _)
ValidResults(rs, k, seen) ==
  IF k > Len(rs) THEN << >>
  ELSE IF rs[k].title # "" /\ rs[k].link # ""
    THEN LET link == CleanLink(rs[k].link) IN
           IF link \notin seen
             THEN <<[rs[k] EXCEPT !.link = link]>>
                    \o ValidResults(rs, k + 1, seen \cup {link})
             ELSE ValidResults(rs, k + 1, seen)
    ELSE ValidResults(rs, k + 1, seen)

\* The loop of search_google_with_html_parsing over the divs from k on,
\* with its break (google_search.py:225-261).
RECURSIVE ParseDivs(_, _, _, _)
ParseDivs(divs, k, results, max_results) ==
  IF k > Len(divs) THEN results
  ELSE LET title == divs[k].title
           link == CleanLink(divs[k].link)
       IN IF title # "" /\ link # "" /\ link # "#frag"
            THEN LET more == Append(results, [title |-> Strip(title), link |-> Strip(link)])
                 IN IF Len(more) >= max_results
                      THEN more
                      ELSE ParseDivs(divs, k + 1, more, max_results)
            ELSE ParseDivs(divs, k + 1, results, max_results)

\* No google_search_results.json has been written.
NoFile == [written |-> FALSE, results |-> << >>]

\* One run of main (google_search.py:270-316) with max_results.  pc: "css"
\* (search_google_css), "llm" (search_google_llm_fallback, called from it),
\* "html" (search_google_with_html_parsing), "write" (main from l.287),
\* "done", or "crashed" (an uncaught exception).  fetches counts the
\* crawler.arun calls on the search URL, results is main's local.
NewGsearch(max_results) ==
  [pc |-> "css", max_results |-> max_results, fetches |-> 0,
   results |-> << >>, output |-> NoFile]

GsearchAt(pc) == prog = "gsearch" /\ gsearch.pc = pc

\* search_google_css or its fallback returns r to main (google_search.py:
\* 280-284): an empty list sends main to the HTML path.
ReturnToMain(g, r) ==
  [g EXCEPT !.results = r, !.pc = IF r = << >> THEN "html" ELSE "write"]

\* search_google_css (google_search.py:90-136).
GsearchCss ==
  /\ GsearchAt("css")
  /\ \E f \in Fetched :
       LET g == [gsearch EXCEPT !.fetches = @ + 1] IN
       gsearch' =
         IF f.success /\ f.shape # "none"
           THEN IF f.shape = "garbage"
                  THEN ReturnToMain(g, << >>)
                  ELSE ReturnToMain(g, Take(ValidResults(f.entries, 1, {}),
                                            gsearch.max_results))
           ELSE [g EXCEPT !.pc = "llm"]
  /\ UNCHANGED <<prog, relay, startup, client, crawl, search, pipeline>>

\* search_google_llm_fallback (google_search.py:173-185): data.get of a JSON
\* list raises AttributeError, which nothing catches.
GsearchLlm ==
  /\ GsearchAt("llm")
  /\ \E f \in Fetched :
       LET g == [gsearch EXCEPT !.fetches = @ + 1] IN
       gsearch' =
         IF f.success /\ f.shape # "none"
           THEN IF f.shape = "list"
                  THEN [g EXCEPT !.pc = "crashed"]
                  ELSE ReturnToMain(g, IF f.shape = "results" THEN f.entries ELSE << >>)
           ELSE ReturnToMain(g, << >>)
  /\ UNCHANGED <<prog, relay, startup, client, crawl, search, pipeline>>

\* search_google_with_html_parsing (google_search.py:215-267); the entries
\* are the div.g, div.tF2Cxc elements of result.html.
GsearchHtml ==
  /\ GsearchAt("html")
  /\ \E f \in Fetched :
       gsearch' = [gsearch EXCEPT
         !.fetches = @ + 1,
         !.pc = "write",
         !.results = IF f.success /\ f.shape # "none"
                       THEN ParseDivs(f.entries, 1, << >>, gsearch.max_results)
                       ELSE << >>]
  /\ UNCHANGED <<prog, relay, startup, client, crawl, search, pipeline>>

\* main writes google_search_results.json when it has results
\* (google_search.py:287-316).
GsearchWrite ==
  /\ GsearchAt("write")
  /\ gsearch' = [gsearch EXCEPT
       !.pc = "done",
       !.output = IF gsearch.results # << >>
                    THEN [written |-> TRUE, results |-> gsearch.results]
                    ELSE NoFile]
  /\ UNCHANGED <<prog, relay, startup, client, crawl, search, pipeline>>

\* ------------------------------------------------------ extraction_pipeline.py
\* The four modes of main (extraction_pipeline.py:328-354).
Modes == {"--generate-schema", "--use-schema", "--manual", "--llm"}

\* What crawler.arun returns: success and extracted_content, which is
\* nothing, text that json.loads rejects, a JSON list, or a JSON object
\* with or without the keys "name" and "fields".
Extracted ==
  {x \in [success : BOOLEAN, kind : {"none", "garbage", "list", "object"},
          hasName : BOOLEAN, hasFields : BOOLEAN] :
     x.kind # "object" => (~x.hasName /\ ~x.hasFields)}

\* The schema file of --use-schema (extraction_pipeline.py:127-133): a JSON
\* object, no file, or text that json.load rejects.
SchemaFiles == {"object", "missing", "garbage"}

\* One run of the function of a mode.  pc: "run", then "done" (it returned)
\* or "raised" (an exception left it).  returned is "None" or "data", file is
\* the output file written ("" for none), fetched what arun returned.
NewPipeline(mode, schema) ==
  [pc |-> "run", mode |-> mode, schema |-> schema,
   fetched |-> [success |-> FALSE, kind |-> "none", hasName |-> FALSE, hasFields |-> FALSE],
   calls |-> 0, returned |-> "", file |-> "", exc |-> ""]

PipelineAt(mode) == prog = "pipeline" /\ pipeline.pc = "run" /\ pipeline.mode = mode

\* The function returns value, having written file.
Return(p, value, file) == [p EXCEPT !.pc = "done", !.returned = value, !.file = file]

\* The exception exc leaves the function.
Escape(p, exc) == [p EXCEPT !.pc = "raised", !.exc = exc]

\* The function has fetched x with crawler.arun.
Fetch(p, x) == [p EXCEPT !.fetched = x, !.calls = @ + 1]

\* generate_schema (extraction_pipeline.py:79-118): "name" not in a list is
\* true, and schema["name"] = "items" on a list raises TypeError.
GenerateSchema ==
  /\ PipelineAt("--generate-schema")
  /\ \E x \in Extracted :
       LET p == Fetch(pipeline, x) IN
       pipeline' =
         IF x.success /\ x.kind # "none"
           THEN IF x.kind = "garbage" THEN Return(p, "None", "")
                ELSE IF x.kind = "list" THEN Escape(p, "TypeError")
                ELSE Return(p, "data", "generated_schema.json")
           ELSE Return(p, "None", "")
  /\ UNCHANGED <<prog, relay, startup, client, crawl, search, gsearch>>

\* use_generated_schema (extraction_pipeline.py:127-169): json.loads stands
\* outside any try, and data.get of a list raises AttributeError.
UseGeneratedSchema ==
  /\ PipelineAt("--use-schema")
  /\ IF pipeline.schema = "missing" THEN pipeline' = Return(pipeline, "None", "")
     ELSE IF pipeline.schema = "garbage" THEN pipeline' = Escape(pipeline, "JSONDecodeError")
     ELSE \E x \in Extracted :
       LET p == Fetch(pipeline, x) IN
       pipeline' =
         IF x.success /\ x.kind # "none"
           THEN IF x.kind = "garbage" THEN Escape(p, "JSONDecodeError")
                ELSE IF x.kind = "list" THEN Escape(p, "AttributeError")
                ELSE Return(p, "data", "extracted_data.json")
           ELSE Return(p, "None", "")
  /\ UNCHANGED <<prog, relay, startup, client, crawl, search, gsearch>>

\* extract_with_manual_schema (extraction_pipeline.py:204-224): json.loads
\* stands outside any try; a list and an object are both handled.
ExtractWithManualSchema ==
  /\ PipelineAt("--manual")
  /\ \E x \in Extracted :
       LET p == Fetch(pipeline, x) IN
       pipeline' =
         IF x.success /\ x.kind # "none"
           THEN IF x.kind = "garbage" THEN Escape(p, "JSONDecodeError")
                ELSE Return(p, "data", "manual_extracted.json")
           ELSE Return(p, "None", "")
  /\ UNCHANGED <<prog, relay, startup, client, crawl, search, gsearch>>

\* extract_with_llm (extraction_pipeline.py:261-287): data.get of a list
\* raises AttributeError, which the except clause does not name.
ExtractWithLlm ==
  /\ PipelineAt("--llm")
  /\ \E x \in Extracted :
       LET p == Fetch(pipeline, x) IN
       pipeline' =
         IF x.success /\ x.kind # "none"
           THEN IF x.kind = "garbage" THEN Return(p, "None", "")
                ELSE IF x.kind = "list" THEN Escape(p, "AttributeError")
                ELSE Return(p, "data", "llm_extracted.json")
           ELSE Return(p, "None", "")
  /\ UNCHANGED <<prog, relay, startup, client, crawl, search, gsearch>>

Init ==
  /\ prog \in {"server", "executor", "start", "client", "crawl", "search",
               "gsearch", "pipeline"}
  /\ pw = None /\ browser = None /\ page = None
  /\ drivers = {} /\ browsers = {} /\ pages = {}
  /\ running = FALSE /\ listening = FALSE /\ pidFile = FALSE
  /\ mainPc = "init" /\ mainRef = None
  /\ conn = [c \in Conns |-> IdleConn]
  /\ last = NoLast
  \* server.py start: no record, a record of a dead process, or the record
  \* of a running server, which holds the port and may have answered a stop
  \* command already.
  /\ \E rec \in {None, OldPid}, live \in BOOLEAN, stopped \in BOOLEAN :
       /\ (live => rec = OldPid) /\ (prog # "start" => rec = None)
       /\ (stopped => live)
       /\ record = rec
       /\ port = IF live THEN OldPid ELSE None
       /\ alive = IF prog = "start"
                    THEN Starters \cup (IF live THEN {OldPid} ELSE {})
                    ELSE {}
       /\ old = IF stopped THEN "poll" ELSE IF live THEN "up" ELSE "none"
  /\ starter = [p \in Starters |-> NewStarter]
  \* send_command: any value, with or without a server listening.
  /\ \E up \in BOOLEAN, data \in ClientData :
       /\ prog # "client" => (up = FALSE /\ data = [tool |-> "get_url", ser |-> TRUE, len |-> 2])
       /\ client = NewClient(up, data)
  \* batch_crawler.py: a non-empty list of URLs (batch_crawler.py:211-213).
  /\ \E argv \in UNION {[1..m -> Words] : m \in 0..MaxOpts}, n \in 1..MaxUrls :
       /\ prog # "crawl" => (argv = << >> /\ n = 1)
       /\ crawl = NewCrawl(argv, n)
  \* google_search.py: any two result pages and any max_results.
  /\ \E p1 \in Pages, p2 \in Pages, hasNext \in BOOLEAN, wanted \in 0..MaxWanted :
       /\ prog # "search" => (p1 = << >> /\ p2 = << >> /\ ~hasNext /\ wanted = 0)
       /\ search = NewSearch(p1, p2, hasNext, wanted)
  \* crawl4ai-skill google_search.py: any max_results.
  /\ \E max_results \in 0..MaxResults :
       /\ prog # "gsearch" => max_results = 0
       /\ gsearch = NewGsearch(max_results)
  \* extraction_pipeline.py: any mode; a schema file for --use-schema.
  /\ \E mode \in Modes, schema \in SchemaFiles :
       /\ prog # "pipeline" => mode = "--manual"
       /\ mode # "--use-schema" => schema = "object"
       /\ pipeline = NewPipeline(mode, schema)

Next ==
  \/ RunServer
  \/ PollStop
  \/ WaitClosed
  \/ MainBrowserClosed
  \/ MainPwStopped
  \/ \E c \in Conns : Accept(c)
  \/ \E c \in Conns : HandleBad(c)
  \/ \E c \in Conns : HandleStop(c)
  \/ \E c \in Conns : HandleStatus(c)
  \/ \E c \in Conns : CallUnknown(c)
  \/ \E c \in Conns : CallMissingArg(c)
  \/ \E c \in Conns : CallLaunch(c)
  \/ \E c \in Conns : CallNavigate(c)
  \/ \E c \in Conns : CallGetTitle(c)
  \/ \E c \in Conns : CallGetUrl(c)
  \/ \E c \in Conns : CallPageOp(c)
  \/ \E c \in Conns : CallClose(c)
  \/ \E c \in Conns : PwStarted(c)
  \/ \E c \in Conns : Launched(c)
  \/ \E c \in Conns : PageCreated(c)
  \/ \E c \in Conns : GotoDone(c)
  \/ \E c \in Conns : TitleDone(c)
  \/ \E c \in Conns : PageOpDone(c)
  \/ \E c \in Conns : BrowserClosed(c)
  \/ \E c \in Conns : PwStopped(c)
  \/ \E c \in Conns : WriteResponse(c)
  \/ \E c \in Conns : DrainDone(c)
  \/ \E c \in Conns : Drain2Done(c)
  \/ ExecUnknown
  \/ ExecMissingArg
  \/ ExecLaunch
  \/ ExecClose
  \/ ExecNavigate
  \/ ExecPageOp
  \/ \E p \in Starters : StartExists(p)
  \/ \E p \in Starters : StartRead(p)
  \/ \E p \in Starters : StartKill(p)
  \/ \E p \in Starters : StartUnlink(p)
  \/ \E p \in Starters : StartBind(p)
  \/ \E p \in Starters : StartWrite(p)
  \/ OldClose
  \/ OldTeardown
  \/ OldUnlink
  \/ OldExit
  \/ CrawlParse
  \/ ClientConnect
  \/ ClientSend
  \/ ServeClient
  \/ ClientRecv
  \/ ClientLoads
  \/ CrawlFetch
  \/ BatchSort
  \/ BatchSave
  \/ ExtractSort
  \/ ExtractSave
  \/ SearchExtract1
  \/ SearchNextPage
  \/ SearchExtract2
  \/ SearchFinish
  \/ GsearchCss
  \/ GsearchLlm
  \/ GsearchHtml
  \/ GsearchWrite
  \/ GenerateSchema
  \/ UseGeneratedSchema
  \/ ExtractWithManualSchema
  \/ ExtractWithLlm

Spec == Init /\ [][Next]_vars

\* ------------------------------------------------------------------- claims
Responding == {"respond", "raise"}

\* This step resumes connection c's handler with its request read.
Dispatches(c) == prog = "server" /\ conn[c].pc = "read" /\ conn'[c].pc # "read"

\* This step ends connection c's call: last' holds the request and the response.
Answers(c) == prog = "server" /\ conn[c].pc \notin Responding /\ conn'[c].pc \in Responding

\* The request a dispatching step of c has read.
Dispatched(c) == IF conn'[c].pc \in Responding THEN last'.req ELSE conn'[c].req

\* A step of the executor is one call_tool call, answered in last'.
ExecCalls == prog = "executor"

\* C1: the server never has two tool calls under way: while the call of one
\* connection awaits a browser operation, no call of another connection has
\* been dispatched.
C1_OneRequestInFlight ==
  \A a, b \in Conns :
    a # b => ~(conn[a].pc \in InFlight /\ conn[b].pc \in InFlight)

\* C2: at most one browser launched by the server is alive, and at most one
\* page exists.
C2_OneBrowserOnePage ==
  prog = "server" => Cardinality(browsers) <= 1 /\ Cardinality(pages) <= 1

\* C3: a connection that has been closed had exactly one response written to
\* it, never none and never two.
C3_ExactlyOneResponse ==
  \A c \in Conns : conn[c].pc = "closed" => conn[c].writes = 1

\* C4: a launch handled while a browser is running answers already_running
\* and leaves the driver, browser and page handles, and the processes behind
\* them, as they were.
C4_LaunchIdempotentStep ==
  /\ \A c \in Conns :
       (Dispatches(c) /\ IsCall(Dispatched(c)) /\ Dispatched(c).tool = "launch"
          /\ browser # None)
       => /\ Answers(c)
          /\ last'.resp.status = "already_running"
          /\ UNCHANGED session
  /\ (ExecCalls /\ last'.req.tool = "launch" /\ browser # None)
       => last'.resp.status = "already_running" /\ UNCHANGED session

\* C4: every step of the program handles launch idempotently while a browser is running.
C4_LaunchIdempotent == [][C4_LaunchIdempotentStep]_vars

C4_Witness ==
  /\ prog = "server" /\ browser # None /\ browser \in browsers
  /\ last.req.tool = "launch" /\ last.resp.status = "already_running"

\* C5: a close handled with no browser running answers not_running and
\* changes nothing; a close that answers success leaves no browser handle
\* and no page handle; in the server as in the executor.
C5_CloseNotRunningStep ==
  /\ \A c \in Conns :
       /\ (Dispatches(c) /\ IsCall(Dispatched(c)) /\ Dispatched(c).tool = "close"
             /\ browser = None)
          => (Answers(c) /\ last'.resp.status = "not_running" /\ UNCHANGED session)
       /\ (Answers(c) /\ last'.req.tool = "close" /\ last'.resp.status = "success")
          => (browser' = None /\ page' = None)
  /\ (ExecCalls /\ last'.req.tool = "close" /\ browser = None)
       => (last'.resp.status = "not_running" /\ UNCHANGED session)
  /\ (ExecCalls /\ last'.req.tool = "close" /\ last'.resp.status = "success")
       => (browser' = None /\ page' = None)

\* C5: every step that handles close with no browser running answers not_running.
C5_CloseNotRunning == [][C5_CloseNotRunningStep]_vars

\* The page-scoped tools other than navigate that each dispatcher registers.
ServerPageTools == {"screenshot", "click", "type", "get_text", "get_url", "get_title", "evaluate"}

NoPageTexts == {"No page open", "No page open. Navigate first."}

SaysNoPage(rs) == rs.status = "error" /\ rs.msg \in NoPageTexts

\* C6 as stated: with no page, every page-scoped tool other than navigate
\* answers error "no page is open" and touches nothing, whatever its args.
C6_NoPageAnyArgsStep ==
  /\ \A c \in Conns :
       (Dispatches(c) /\ IsCall(Dispatched(c)) /\ Dispatched(c).tool \in ServerPageTools
          /\ page = None)
       => Answers(c) /\ SaysNoPage(last'.resp) /\ UNCHANGED session
  /\ (ExecCalls /\ last'.req.tool \in ExecPageTools /\ page = None)
       => SaysNoPage(last'.resp) /\ UNCHANGED session

C6_NoPageErrorStep ==
  /\ \A c \in Conns :
       (Dispatches(c) /\ IsCall(Dispatched(c)) /\ Dispatched(c).tool \in ServerPageTools
          /\ ~MissingArgs(Dispatched(c).tool, Dispatched(c).args) /\ page = None)
       => Answers(c) /\ SaysNoPage(last'.resp) /\ UNCHANGED session
  /\ (ExecCalls /\ last'.req.tool \in ExecPageTools
          /\ ~MissingArgs(last'.req.tool, last'.req.args) /\ page = None)
       => SaysNoPage(last'.resp) /\ UNCHANGED session

C7_LazyNavigateStep ==
  /\ \A c \in Conns :
       (Answers(c) /\ conn[c].req.tool = "navigate" /\ conn[c].lazy
          /\ last'.resp.status = "success")
       => /\ browser' # None /\ browser' \in browsers'
          /\ page' # None /\ pages' = {page'}
          /\ last'.resp.page = page'
  /\ (ExecCalls /\ last'.req.tool = "navigate" /\ page = None
          /\ last'.resp.status = "success")
       => /\ browser' # None /\ browser' \in browsers'
          /\ page' # None /\ pages' = {page'}
          /\ last'.resp.page = page'

\* C7: every step in which a lazy navigate answers success leaves one browser and one page.
C7_LazyNavigate == [][C7_LazyNavigateStep]_vars

\* The tool name as the message prints it.
Shown(tool) == IF tool = NoTool THEN "None" ELSE tool

\* C8: a tool name outside the registry (or no tool field, or an unknown cmd
\* with no registered tool) answers error "Unknown tool: <name>" at once and
\* leaves the Session and the server's control state as they were.
C8_UnknownToolStep ==
  /\ \A c \in Conns :
       (Dispatches(c) /\ IsCall(Dispatched(c)) /\ Dispatched(c).tool \notin ServerTools)
       => /\ Answers(c)
          /\ last'.resp.status = "error"
          /\ last'.resp.msg = "Unknown tool: " \o Shown(last'.req.tool)
          /\ UNCHANGED <<session, control>>
  /\ (ExecCalls /\ last'.req.tool \notin ExecTools)
       => /\ last'.resp.status = "error"
          /\ last'.resp.msg = "Unknown tool: " \o Shown(last'.req.tool)
          /\ UNCHANGED <<session, control>>

\* C8: every step that handles an unregistered tool name answers Unknown tool and changes nothing.
C8_UnknownTool == [][C8_UnknownToolStep]_vars

C8_Witness ==
  /\ prog = "server" /\ running /\ browser # None
  /\ last.req.cmd = "other" /\ last.req.tool = NoTool
  /\ last.resp.msg = "Unknown tool: None"

\* C9: a registered tool missing a required argument answers error with the
\* failure text (in the server, the missing key), runs no browser operation,
\* leaves the Session as it was, and the server keeps serving.
C9_MissingArgumentStep ==
  /\ \A c \in Conns :
       (Dispatches(c) /\ IsCall(Dispatched(c)) /\ Dispatched(c).tool \in ServerTools
          /\ MissingArgs(Dispatched(c).tool, Dispatched(c).args))
       => /\ Answers(c)
          /\ last'.resp.status = "error"
          /\ \E k \in Range(Required(last'.req.tool)) \ last'.req.args :
               last'.resp.msg = "'" \o k \o "'"
          /\ UNCHANGED <<session, control>>
  /\ (ExecCalls /\ last'.req.tool \in ExecTools
          /\ MissingArgs(last'.req.tool, last'.req.args))
       => /\ last'.resp.status = "error"
          /\ last'.resp.msg # ""
          /\ UNCHANGED <<session, control>>

\* C9: every step that handles a call lacking a required argument answers error and changes nothing.
C9_MissingArgument == [][C9_MissingArgumentStep]_vars

C9_Witness ==
  /\ prog = "server" /\ running /\ listening /\ page # None
  /\ last.req.tool = "type" /\ last.req.args = {"selector"}
  /\ last.resp = Resp("error", "'text'")

\* C10: a registered tool called with its required arguments is answered
\* with one of the four status tags, whatever the Session state and however
\* the browser operations went.
C10_StatusTag ==
  /\ (prog = "server" /\ IsCall(last.req) /\ last.req.tool \in ServerTools
        /\ ~MissingArgs(last.req.tool, last.req.args))
     => last.resp.status \in Tags
  /\ (prog = "executor" /\ last.req.json = "object" /\ last.req.tool \in ExecTools
        /\ ~MissingArgs(last.req.tool, last.req.args))
     => last.resp.status \in Tags

C10_Witness ==
  /\ prog = "server" /\ page = None /\ browser # None
  /\ last.req.tool = "navigate" /\ last.resp.status = "error"

\* The run_server task has ended (asyncio.run has returned or raised).
Ended == prog = "server" /\ mainPc \in {"stopped", "crashed"}

\* C11: once the stop command was handled and run_server has ended, the
\* listening socket is closed, the driver, browser and page handles are
\* absent and the liveness record is removed, also when tearing down the
\* browser failed.
C11_StoppedClean ==
  Ended => /\ ~listening
           /\ pw = None /\ browser = None /\ page = None
           /\ ~pidFile

\* A request other than a well-formed stop command.
NotStop(rq) == ~(rq.json = "object" /\ rq.cmd = "stop")

\* C12: only the handling of a stop command clears RUNNING; the handling of
\* any other request leaves the server running, listening and its liveness
\* record in place, and while the server is RUNNING it keeps listening and
\* keeps its record.
C12_OnlyStopStep ==
  /\ (running /\ ~running')
       => \E c \in Conns : Answers(c) /\ ~NotStop(last'.req)
  /\ \A c \in Conns :
       (Answers(c) /\ NotStop(last'.req)) => UNCHANGED <<running, listening, pidFile>>
  /\ running => (listening' = listening /\ pidFile' = pidFile)

\* C12: every step of the program leaves RUNNING only through a stop command.
C12_OnlyStop == [][C12_OnlyStopStep]_vars

C12_Witness ==
  /\ prog = "server" /\ running /\ listening /\ pidFile
  /\ last.req.json = "notobject" /\ last.resp.status = "error"

\* C16: a navigate whose page load raises (failure or timeout) is answered
\* with one error response by the step in which the load fails, without
\* loading again, with the Session handles as they were when the load
\* failed, and the server keeps serving.
C16_NavigateFailureStep ==
  \A c \in Conns :
    /\ (prog = "server" /\ conn[c].pc = "goto")
         => conn'[c].pc \in {"goto", "title", "respond", "closed"}
    /\ (Answers(c) /\ conn[c].pc = "goto")
         => /\ last'.req = conn[c].req /\ last'.req.tool = "navigate"
            /\ last'.resp.status = "error"
            /\ UNCHANGED <<session, control>>

StartersDone == prog = "start" /\ \A p \in Starters : starter[p].pc \in Ended_Starter

\* C13: start against the record of a live process starts nothing, leaves
\* the record and the running server as they are and exits 0; start
\* against a stale record ends with a server RUNNING and the record holding
\* that server's pid, also when two start commands run at the same time.
C13_StartAgainstRecord ==
  /\ (prog = "start" /\ old = "up")
       => /\ record = OldPid /\ port = OldPid
          /\ \A p \in Starters : starter[p].pc \in {"exists", "read", "kill", "exit0"}
  /\ (StartersDone /\ old = "none")
       => \E p \in Starters : starter[p].pc = "running" /\ port = p /\ record = p

\* send_command has returned or raised.
ClientDone == prog = "client" /\ client.pc = "done"

\* C14: with no server listening, send_command calls connect exactly once
\* and returns the error response that says the server is not running and
\* how to start it; it does not raise.
C14_NotRunning ==
  /\ prog = "client" => client.connects <= 1
  /\ (ClientDone /\ ~client.up)
       => /\ client.connects = 1
          /\ client.result = Returned("error", NotRunningText)

C14_Witness == ClientDone /\ ~client.up /\ ~client.data.ser

\* C15: send_command never raises, and every failure inside it other than
\* a refused connection (reset, timeout, no reply, cut-off reply, a request
\* that cannot be serialized) is returned as an error response whose
\* message is the text of the failure.
C15_NeverRaises ==
  ClientDone
    => /\ client.result.kind = "returned"
       /\ (client.exc \in Exceptions \ {"ConnectionRefusedError"})
            => client.result = Returned("error", ExcText(client.exc))

C15_Witness ==
  /\ ClientDone /\ client.exc = "JSONDecodeError"
  /\ client.reply # NoReply /\ client.reply.status = "success"
  /\ client.rcvd.got < client.rcvd.len

\* C17: the request the server dispatches is the one the client serialized,
\* and the response send_command returns is the one the server wrote,
\* whatever their lengths and however they arrive.
C17_RoundTrip ==
  /\ (prog = "client" /\ client.pc \in {"recv", "loads"})
       => client.dispatched = client.data.tool
  /\ (ClientDone /\ client.reply # NoReply /\ client.exc # "ConnectionResetError")
       => client.result = Returned(client.reply.status, client.reply.msg)

\* The URL positions in a list of the output.
Listed(list) == {list[k] : k \in 1..Len(list)}

\* The results of the library whose fetch failed.
FailedFetches == {u \in 1..crawl.n : ~crawl.fetched[u].success}

\* The batch run has written its file.
CrawlDone(mode) == prog = "crawl" /\ crawl.pc = "done" /\ crawl.mode = mode

\* C18: crawl_batch on N URLs of which M fail writes an output whose
\* results list has N-M entries and whose failed list has M: every result
\* of the library is in exactly one of the two lists, by its success flag,
\* and the two counts are the lengths of the lists and add up to N.
C18_BatchPartition ==
  CrawlDone("batch")
    => LET out == crawl.output
           m == Cardinality(FailedFetches)
       IN /\ out.file = "batch_results.json"
          /\ Len(out.results) = crawl.n - m
          /\ Len(out.failed) = m
          /\ Listed(out.failed) = FailedFetches
          /\ Listed(out.results) = (1..crawl.n) \ FailedFetches
          /\ out.success_count = Len(out.results)
          /\ out.failed_count = Len(out.failed)
          /\ out.success_count + out.failed_count = crawl.n

C18_Witness ==
  /\ CrawlDone("batch") /\ crawl.n = MaxUrls
  /\ Cardinality(FailedFetches) = 2
  /\ crawl.output.failed_count = 2

\* A result whose extracted content json.loads rejects.
Unparsed == {u \in 1..crawl.n : crawl.fetched[u].success /\ crawl.fetched[u].content = "garbage"}

\* C19: in either mode, the written output has a failed list that holds
\* every URL whose fetch failed (and, with --extract, every URL whose
\* content could not be parsed), and every other URL was still processed.
C19_FailedListed ==
  \A mode \in {"batch", "extract"} :
    CrawlDone(mode)
      => /\ crawl.output.hasFailed
         /\ FailedFetches \subseteq Listed(crawl.output.failed)
         /\ (mode = "extract" => Unparsed \subseteq Listed(crawl.output.failed))
         /\ {u \in 1..crawl.n : crawl.fetched[u].success
                                  /\ (mode = "extract" => crawl.fetched[u].content = "json")}
              \subseteq Listed(crawl.output.results)

\* C20: the list GoogleSearcher.search returns holds no two results with
\* the same link, whatever the two pages show and whatever max_results is,
\* also when the pages overlap or page 1 has no next-page button.
C20_NoDuplicateLinks ==
  (prog = "search" /\ search.pc = "done")
    => \A i, j \in 1..Len(search.results) :
         i # j => search.results[i].link # search.results[j].link

\* The tools that only read the page.
ReadOnlyTools == {"get_url", "get_title", "get_text", "screenshot"}

\* A status command or a call of a read-only tool.
ReadOnly(rq) ==
  /\ rq.json = "object"
  /\ rq.cmd = "status" \/ (rq.cmd # "stop" /\ rq.tool \in ReadOnlyTools)

\* The request that a step of connection c's handler is serving.
Serving(c) == IF conn'[c].pc \in Responding THEN last'.req ELSE conn'[c].req

\* C25: every step of the handling of a status command or of get_url,
\* get_title, get_text or screenshot leaves the Session as it was, and a
\* status response carries whether the browser and page handles exist when
\* the command is handled.
C25_ReadOnlyStep ==
  \A c \in Conns :
    /\ ((Dispatches(c) \/ Answers(c)) /\ ReadOnly(Serving(c))) => UNCHANGED session
    /\ (Answers(c) /\ last'.req.json = "object" /\ last'.req.cmd = "status")
         => /\ last'.resp.status = "success"
            /\ last'.resp.hasB = (browser # None)
            /\ last'.resp.hasP = (page # None)

\* C25: every step that serves a status command or a read-only tool leaves the Session unchanged.
C25_ReadOnly == [][C25_ReadOnlyStep]_vars

C25_Witness ==
  /\ prog = "server" /\ browser # None /\ page = None
  /\ last.req.cmd = "status" /\ last.resp.hasB /\ ~last.resp.hasP

\* No call is under way: every handler is before its read or past its answer.
BetweenRequests ==
  /\ prog = "server" /\ mainPc = "loop"
  /\ \A c \in Conns : conn[c].pc \in {"idle", "read", "drain", "drain2", "closed"}

\* C27: between two requests the browser handle is present exactly when
\* the page handle is, and the driver handle exactly when the browser
\* handle is, also after calls in which the launch, the page creation or
\* the close failed.
C27_HandlesPaired ==
  BetweenRequests
    => /\ (browser # None) <=> (page # None)
       /\ (pw # None) <=> (browser # None)

\* C28: whenever a server process is RUNNING and accepting connections on
\* the port, the liveness record exists and holds that process's id, under
\* any interleaving of start commands.
C28_RecordWhileRunning ==
  /\ (prog = "server" /\ running /\ listening) => pidFile
  /\ prog = "start"
       => \A p \in Starters :
            (starter[p].pc = "running" /\ port = p) => record = p

\* The running flag is cleared and the listening socket not yet closed.
Stopping == prog = "server" /\ mainPc = "loop" /\ ~running /\ listening

\* C30: from the moment a stop command has cleared the running flag until
\* the listening socket is closed, no handler starts a browser operation
\* for a newly read request.
C30_NoCallAfterStopStep ==
  Stopping => \A c \in Conns : ~(Dispatches(c) /\ conn'[c].pc \in InFlight)

\* C30: no step starts a browser operation once the stop command has been handled.
C30_NoCallAfterStop == [][C30_NoCallAfterStopStep]_vars

\* C26: when search returns, the list holds at most max_results entries and
\* the rank of the k-th entry is k, for every max_results >= 0.
C26_RanksInOrder ==
  (prog = "search" /\ search.pc = "done")
    => /\ Len(search.results) <= search.wanted
       /\ \A k \in 1..Len(search.results) : search.results[k].rank = k

\* A search that read both pages and returned entries of the second one.
C26_Witness ==
  /\ prog = "search" /\ search.pc = "done" /\ search.shown = 2
  /\ Len(search.results) = search.wanted
  /\ \E k \in 1..Len(search.results) : search.results[k].link \in Range(search.page2)
       /\ search.results[k].link \notin Range(search.page1)

\* The server had answered "Server stopping" before the start commands.
StartedAfterStop == prog = "start" /\ old \notin {"none", "up"}

\* C29: a start command issued after the 'Server stopping' response is not
\* answered with 'already running' on account of the server that is
\* shutting down, and once that server is gone and the start commands have
\* ended, a server is RUNNING.
C29_StartAfterStop ==
  StartedAfterStop
    => /\ \A p \in Starters :
            ~(starter[p].pc = "exit0" /\ starter[p].pid = OldPid)
       /\ (StartersDone /\ old = "gone")
            => \E p \in Starters : starter[p].pc = "running"

\* The places of argv where --max-concurrent is followed by another word.
Given(argv) == {k \in 1..(Len(argv) - 1) : argv[k] = "--max-concurrent"}

\* C24: the max_concurrent that batch_crawler.py passes to arun_many is the
\* N of --max-concurrent N, or 5 when the flag is absent, with and without
\* --extract and wherever the flag stands among the options.
C24_ConcurrencyBound ==
  (prog = "crawl" /\ crawl.calls > 0)
    => /\ "--max-concurrent" \notin Range(crawl.argv) => crawl.bound = 5
       /\ \A k \in Given(crawl.argv) :
            (Cardinality(Given(crawl.argv)) = 1 /\ crawl.argv[k + 1] \in DOMAIN IntOf)
              => crawl.bound = IntOf[crawl.argv[k + 1]]

\* google_search_results.json has been written.
GsearchWritten == prog = "gsearch" /\ gsearch.pc = "done" /\ gsearch.output.written

\* C21: the results that crawl4ai-skill google_search.py writes hold no two
\* entries with the same link, only entries with a non-empty title and a
\* non-empty link, and at most max_results entries, whichever path
\* extracted them.
C21_WrittenResults ==
  GsearchWritten
    => LET rs == gsearch.output.results IN
         /\ \A i, j \in 1..Len(rs) : i # j => rs[i].link # rs[j].link
         /\ \A i \in 1..Len(rs) : rs[i].title # "" /\ rs[i].link # ""
         /\ Len(rs) <= gsearch.max_results

\* C22: in one run of a task script each target URL is fetched at most
\* once: one arun_many in batch_crawler.py, one arun in a mode of
\* extraction_pipeline.py, one arun on the search URL in google_search.py.
C22_NoRefetch ==
  /\ prog = "crawl" => crawl.calls <= 1
  /\ prog = "pipeline" => pipeline.calls <= 1
  /\ prog = "gsearch" => gsearch.fetches <= 1

\* The content that a mode cannot use: text that is not JSON, or a JSON
\* list where the mode expects an object (--manual takes both).
Unusable(mode, x) ==
  /\ x.success
  /\ x.kind = "garbage" \/ (x.kind = "list" /\ mode # "--manual")

\* C23: in every mode of extraction_pipeline.py, extracted content that is
\* not valid JSON or is JSON of an unexpected shape makes the mode's
\* function return None: no exception leaves it and no file is written.
C23_BadContentCaught ==
  (prog = "pipeline" /\ pipeline.pc # "run" /\ pipeline.calls > 0
     /\ Unusable(pipeline.mode, pipeline.fetched))
    => /\ pipeline.pc = "done"
       /\ pipeline.returned = "None"
       /\ pipeline.file = ""

====
